---- MODULE Spec2Model ----
(***************************************************************************)
(* Model of src/dashboard.py: a Streamlit script that is re-executed top   *)
(* to bottom on every UI interaction.  One execution calls the memoized    *)
(* loader load_data(), applies the segment filter and computes the         *)
(* aggregates that the charts and tables display.                          *)
(*                                                                         *)
(* A pandas DataFrame is a record [none, columns, index, rows]: the        *)
(* column labels, the row labels (the index) and one tuple of cells per    *)
(* row.  Python's None is the frame with none = TRUE.  Numeric cells are   *)
(* integers; a missing Customer_Segment cell is the value NaN.             *)
(***************************************************************************)
EXTENDS Integers, Sequences, FiniteSets, TLC

VARIABLES
    rfmFile,           \* data/rfm_analysis.csv on disk
    txFile,            \* data/cleaned_online_retail.csv on disk
    tieOrder,          \* how this build's default (not stable) sort orders equal keys
    cache,             \* st.cache_data entry of load_data
    rfm, df,           \* module-level rfm, df of the current execution
    errors,            \* st.error messages displayed by the current execution
    selected_segment,
    rfm_filtered,
    metrics,
    segment_counts,
    segment_rfm,
    segment_revenue,
    top_customers,
    segment_summary,
    raw_sample,
    runs,              \* executions of the script so far
    loaderRuns,        \* executions of the body of load_data so far
    aggRuns            \* executions of the branch of line 46 so far

vars == <<rfmFile, txFile, tieOrder, cache, rfm, df, errors, selected_segment,
          rfm_filtered, metrics, segment_counts, segment_rfm, segment_revenue,
          top_customers, segment_summary, raw_sample, runs, loaderRuns, aggRuns>>

----------------------------------------------------------------------------
(* Bounds of the model *)

MaxRows == 2
MaxPartialRows == 1
MaxTopRows == 11
MaxHeaderLen == 2
LoadRows == 2
MaxTxRows == 2
MaxRuns == 2

(* Program constants *)

TopN == 10
SampleRows == 20

----------------------------------------------------------------------------
(* Values *)

NaN == "NaN"

\* the segment labels of the model, in the order sorted() gives them
SegmentLabels == <<"A", "B">>

RecencyValues == {1, 2}
FrequencyValues == {3}
MonetaryValues == {1, 2}
SegmentValues == {SegmentLabels[i] : i \in 1..Len(SegmentLabels)} \cup {NaN}

Min(a, b) == IF a <= b THEN a ELSE b

RangeOf(s) == {s[i] : i \in 1..Len(s)}

\* range(n) as row labels: 0, 1, ..., n-1
RangeIndex(n) == [i \in 1..n |-> i - 1]

RECURSIVE SumSeq(_)
SumSeq(s) == IF s = <<>> THEN 0 ELSE s[1] + SumSeq(Tail(s))

\* num/den rounded to the nearest integer, halves to the even neighbour
RoundHalfEven(num, den) ==
    LET q == num \div den
        r == num % den
    IN  IF 2 * r < den THEN q
        ELSE IF 2 * r > den THEN q + 1
        ELSE IF q % 2 = 0 THEN q ELSE q + 1

----------------------------------------------------------------------------
(* DataFrames *)

NoneFrame == [none |-> TRUE, columns |-> <<>>, index |-> <<>>, rows |-> <<>>]

Frame(columns, index, rows) ==
    [none |-> FALSE, columns |-> columns, index |-> index, rows |-> rows]

HasCol(f, name) == \E i \in 1..Len(f.columns) : f.columns[i] = name

ColPos(f, name) ==
    CHOOSE i \in 1..Len(f.columns) :
        /\ f.columns[i] = name
        /\ \A j \in 1..(i - 1) : f.columns[j] # name

Column(f, name) == [i \in 1..Len(f.rows) |-> f.rows[i][ColPos(f, name)]]

\* f.rename(columns={old: new})
Rename(f, old, new) ==
    [f EXCEPT !.columns =
        [i \in 1..Len(f.columns) |->
            IF f.columns[i] = old THEN new ELSE f.columns[i]]]

\* f.iloc[positions]
Take(f, positions) ==
    [f EXCEPT !.index = [k \in 1..Len(positions) |-> f.index[positions[k]]],
              !.rows = [k \in 1..Len(positions) |-> f.rows[positions[k]]]]

\* f.head(n)
Head_(f, n) == Take(f, [k \in 1..Min(n, Len(f.rows)) |-> k])

----------------------------------------------------------------------------
(* Reading the files *)

UnnamedNames == <<"Unnamed: 0", "Unnamed: 1", "Unnamed: 2", "Unnamed: 3">>

\* pd.read_csv names a column whose header cell is empty "Unnamed: <position>"
ParseHeader(header) ==
    [i \in 1..Len(header) |->
        IF header[i] = "" THEN UnnamedNames[i] ELSE header[i]]

Raised(what) == [raised |-> TRUE, error |-> what, frame |-> NoneFrame]
Returned(f) == [raised |-> FALSE, error |-> "", frame |-> f]

\* pd.read_csv(path)
ReadCsv(file) ==
    IF ~file.exists THEN Raised("FileNotFoundError")
    ELSE IF file.header = <<>> THEN Raised("EmptyDataError")
    ELSE Returned(Frame(ParseHeader(file.header),
                        RangeIndex(Len(file.rows)), file.rows))

\* f.reset_index(): the row labels become the first column, named "index",
\* or "level_0" when a column "index" exists already
ResetIndex(f) ==
    LET name == IF ~HasCol(f, "index") THEN "index" ELSE "level_0"
    IN  IF HasCol(f, name) THEN Raised("ValueError")
        ELSE Returned(Frame(<<name>> \o f.columns,
                            RangeIndex(Len(f.rows)),
                            [i \in 1..Len(f.rows) |-> <<f.index[i]>> \o f.rows[i]]))

IndexSentinels == {"Unnamed: 0", "index"}

\* lines 25-27
RenameFirstColumn(f) ==
    IF f.columns[1] \in IndexSentinels
    THEN Rename(f, f.columns[1], "CustomerID")
    ELSE f

\* lines 29-33
MaterializeIndex(f) ==
    IF ~HasCol(f, "CustomerID")
    THEN LET r == ResetIndex(f)
         IN  IF r.raised THEN r
             ELSE IF HasCol(r.frame, "index")
                  THEN Returned(Rename(r.frame, "index", "CustomerID"))
                  ELSE r
    ELSE Returned(f)

\* lines 22-33
LoadRfm(file) ==
    LET r == ReadCsv(file)
    IN  IF r.raised THEN r ELSE MaterializeIndex(RenameFirstColumn(r.frame))

\* the date texts of the model and the timestamps they parse to
DateTexts == {"2010-12-01", "not a date"}

IsDate(text) == text = "2010-12-01"

Timestamp(text) == CASE text = "2010-12-01" -> 20101201

\* pd.to_datetime(series): every cell parses, or the call raises
ToDatetime(cells) ==
    IF \E i \in 1..Len(cells) : ~IsDate(cells[i])
    THEN [raised |-> TRUE, values |-> <<>>]
    ELSE [raised |-> FALSE,
          values |-> [i \in 1..Len(cells) |-> Timestamp(cells[i])]]

\* lines 35-37
LoadTransactions(file) ==
    LET r == ReadCsv(file)
    IN  IF r.raised THEN r
        ELSE IF ~HasCol(r.frame, "InvoiceDate") THEN Raised("KeyError")
        ELSE LET p == ColPos(r.frame, "InvoiceDate")
                 d == ToDatetime(Column(r.frame, "InvoiceDate"))
             IN  IF d.raised THEN Raised("ParserError")
                 ELSE Returned([r.frame EXCEPT !.rows =
                        [i \in 1..Len(r.frame.rows) |->
                            [r.frame.rows[i] EXCEPT ![p] = d.values[i]]]])

LoadFailure == [rfm |-> NoneFrame, df |-> NoneFrame, error |-> TRUE]

\* a loader that keeps the RFM table when the transactions fail to load
load_data_partial(rfmF, txF) ==
    LET a == LoadRfm(rfmF)
        b == LoadTransactions(txF)
    IN  IF a.raised THEN LoadFailure
        ELSE IF b.raised THEN [rfm |-> a.frame, df |-> NoneFrame, error |-> TRUE]
        ELSE [rfm |-> a.frame, df |-> b.frame, error |-> FALSE]

\* the body of load_data, lines 20-42
load_data(rfmF, txF) ==
    LET a == LoadRfm(rfmF)
        b == LoadTransactions(txF)
    IN  IF a.raised \/ b.raised THEN LoadFailure
        ELSE [rfm |-> a.frame, df |-> b.frame, error |-> FALSE]

----------------------------------------------------------------------------
(* Series operations *)

RECURSIVE Where(_, _)
\* the positions k, k+1, ... at which the boolean mask is true, increasing
Where(mask, k) ==
    IF k > Len(mask) THEN <<>>
    ELSE (IF mask[k] THEN <<k>> ELSE <<>>) \o Where(mask, k + 1)

\* f[mask]
BooleanIndex(f, mask) == Take(f, Where(mask, 1))

\* a == b on two cells: a missing value equals nothing, itself included
CellEq(a, b) == a # NaN /\ b # NaN /\ a = b

\* values == x, elementwise
SeriesEq(values, x) == [i \in 1..Len(values) |-> CellEq(values[i], x)]

\* values.unique(): the distinct values in order of first appearance,
\* the missing value among them
Unique(values) ==
    LET first == [i \in 1..Len(values) |->
                    \A j \in 1..(i - 1) : values[j] # values[i]]
        at == Where(first, 1)
    IN  [k \in 1..Len(at) |-> values[at[k]]]

\* the permutation that sorts keys in descending order; equal keys keep
\* their order when tie = "first" and swap it when tie = "last"
SortOrderDesc(keys, tie) ==
    LET n == Len(keys)
        Before(i, j) ==
            \/ keys[i] > keys[j]
            \/ keys[i] = keys[j] /\ (IF tie = "first" THEN i < j ELSE i > j)
        pos == [i \in 1..n |-> 1 + Cardinality({j \in 1..n : Before(j, i)})]
    IN  [p \in 1..n |-> CHOOSE i \in 1..n : pos[i] = p]

\* entries.sort_values(by, ascending=False) with the default kind, where
\* keys[i] is the sort key of entries[i]
SortValuesDesc(entries, keys) ==
    LET order == SortOrderDesc(keys, tieOrder)
    IN  [p \in 1..Len(entries) |-> entries[order[p]]]

----------------------------------------------------------------------------
(* Segment filter, lines 57-70 *)

SegCol == "Customer_Segment"

\* line 59
Segments(f) == <<"All">> \o Unique(Column(f, SegCol))

\* a filter that also filters the selection "All"
FilterAlways(f, sel) == BooleanIndex(f, SeriesEq(Column(f, SegCol), sel))

\* lines 63-66
FilterBySegment(f, sel) ==
    IF sel # "All"
    THEN BooleanIndex(f, SeriesEq(Column(f, SegCol), sel))
    ELSE f

----------------------------------------------------------------------------
(* Key metrics, lines 72-92 *)

NotAvailable == [kind |-> "N/A", scaled |-> 0]

\* f"{series.mean():.1f}": tenths of the mean, "nan" for no rows
FormatMean(values) ==
    IF Len(values) = 0 THEN [kind |-> "nan", scaled |-> 0]
    ELSE [kind |-> "value",
          scaled |-> RoundHalfEven(10 * SumSeq(values), Len(values))]

\* f"${series.sum():,.2f}": hundredths of the sum
FormatSum(values) == [kind |-> "value", scaled |-> 100 * SumSeq(values)]

\* a mean metric computed without looking whether the column exists
MetricMeanUnguarded(f, name) ==
    IF HasCol(f, name) THEN FormatMean(Column(f, name))
    ELSE [kind |-> "KeyError", scaled |-> 0]

\* lines 79-82 and 84-87
MetricMean(f, name) ==
    IF HasCol(f, name) THEN FormatMean(Column(f, name)) ELSE NotAvailable

\* lines 89-92
MetricSum(f, name) ==
    IF HasCol(f, name) THEN FormatSum(Column(f, name)) ELSE NotAvailable

KeyMetrics(f) ==
    [total_customers |-> Len(f.rows),
     avg_recency |-> MetricMean(f, "Recency"),
     avg_frequency |-> MetricMean(f, "Frequency"),
     total_revenue |-> MetricSum(f, "Monetary")]

----------------------------------------------------------------------------
(* Grouping *)

\* the keys of f.groupby('Customer_Segment'): sorted, missing values dropped
GroupKeys(f) ==
    LET present == [i \in 1..Len(SegmentLabels) |->
                      SegmentLabels[i] \in RangeOf(Column(f, SegCol))]
        at == Where(present, 1)
    IN  [k \in 1..Len(at) |-> SegmentLabels[at[k]]]

\* the values of column name in the rows of one group
GroupValues(f, key, name) ==
    LET g == BooleanIndex(f, SeriesEq(Column(f, SegCol), key))
    IN  Column(g, name)

\* series.mean().round(2), in hundredths
Mean2(values) == RoundHalfEven(100 * SumSeq(values), Len(values))

Hidden == [shown |-> FALSE, data |-> <<>>]
Shown(data) == [shown |-> TRUE, data |-> data]

\* lines 103-104: value_counts() counts the values present, most frequent first
SegmentCounts(f) ==
    LET values == Column(f, SegCol)
        present == SelectSeq(Unique(values), LAMBDA v : v # NaN)
        entries == [k \in 1..Len(present) |->
                      [Segment |-> present[k],
                       Count |-> Len(Where(SeriesEq(values, present[k]), 1))]]
    IN  SortValuesDesc(entries, [k \in 1..Len(entries) |-> entries[k].Count])

\* line 131
SegmentRfm(f) ==
    LET keys == GroupKeys(f)
    IN  [k \in 1..Len(keys) |->
           [Segment |-> keys[k],
            Recency |-> Mean2(GroupValues(f, keys[k], "Recency")),
            Frequency |-> Mean2(GroupValues(f, keys[k], "Frequency")),
            Monetary |-> Mean2(GroupValues(f, keys[k], "Monetary"))]]

\* lines 180-181
SegmentRevenue(f) ==
    LET keys == GroupKeys(f)
        sums == [k \in 1..Len(keys) |->
                   [Segment |-> keys[k],
                    Revenue |-> SumSeq(GroupValues(f, keys[k], "Monetary"))]]
    IN  SortValuesDesc(sums, [k \in 1..Len(sums) |-> sums[k].Revenue])

\* lines 236-243
SegmentSummary(f) ==
    LET keys == GroupKeys(f)
        agg == [k \in 1..Len(keys) |->
                  [Segment |-> keys[k],
                   AvgRecency |-> Mean2(GroupValues(f, keys[k], "Recency")),
                   AvgFrequency |-> Mean2(GroupValues(f, keys[k], "Frequency")),
                   AvgMonetary |-> Mean2(GroupValues(f, keys[k], "Monetary")),
                   TotalRevenue |-> SumSeq(GroupValues(f, keys[k], "Monetary")),
                   CustomerCount |-> Len(GroupValues(f, keys[k], "Monetary"))]]
    IN  SortValuesDesc(agg, [k \in 1..Len(agg) |-> agg[k].TotalRevenue])

\* nlargest that keeps the last occurrences of equal values
NLargestLast(f, n, name) ==
    LET order == SortOrderDesc(Column(f, name), "last")
    IN  Take(f, SubSeq(order, 1, Min(n, Len(order))))

\* f.nlargest(n, name): keep='first', the first occurrences of equal values
\* come first
NLargest(f, n, name) ==
    LET order == SortOrderDesc(Column(f, name), "first")
    IN  Take(f, SubSeq(order, 1, Min(n, Len(order))))

\* lines 192-193: the Monetary column of the top rows under a fresh index,
\* with the rank i of 'Customer i'
TopCustomers(f) ==
    LET top == Column(NLargest(f, TopN, "Monetary"), "Monetary")
    IN  [i \in 1..Len(top) |-> [Monetary |-> top[i], Customer |-> i]]

----------------------------------------------------------------------------
(* The memoized loader, line 19 and line 44 *)

EmptyCache == [stored |-> FALSE, value |-> LoadFailure]

\* a cache whose entries are never found again
CacheMiss(c) == FALSE

\* st.cache_data: load_data takes no argument, so one entry serves every call
CacheHit(c) == c.stored

RfmColumns == <<"Recency", "Frequency", "Monetary">>

HasAll(f, names) == \A i \in 1..Len(names) : HasCol(f, names[i])

\* the options of the selectbox an execution over the table f offers
Options(f) ==
    IF ~f.none /\ HasCol(f, SegCol) THEN RangeOf(Segments(f)) ELSE {"All"}

\* the table the per-segment charts and tables are computed from
\* when they follow the selection
AggregateSourceFiltered(all, filtered) == filtered

\* the table the per-segment charts and tables are computed from:
\* rfm, lines 103, 131, 180, 192 and 236
AggregateSource(all, filtered) == all

\* One execution of the script, lines 44-259, with the selectbox at sel
Execute(sel) ==
    LET hit == CacheHit(cache)
        res == IF hit THEN cache.value ELSE load_data(rfmFile, txFile)
        t == res.rfm
        loaded == ~res.rfm.none /\ ~res.df.none
        hasSeg == loaded /\ HasCol(t, SegCol)
        choice == IF hasSeg THEN sel ELSE "All"
        filtered == IF hasSeg THEN FilterBySegment(t, choice) ELSE t
        src == AggregateSource(t, filtered)
    IN  /\ cache' = [stored |-> TRUE, value |-> res]
        /\ loaderRuns' = IF hit THEN loaderRuns ELSE loaderRuns + 1
        /\ runs' = runs + 1
        /\ rfm' = res.rfm
        /\ df' = res.df
        /\ errors' = (IF res.error THEN <<"Error loading data">> ELSE <<>>)
                     \o (IF loaded THEN <<>> ELSE <<"Could not load data files">>)
        /\ aggRuns' = IF loaded THEN aggRuns + 1 ELSE aggRuns
        /\ selected_segment' = IF loaded THEN choice ELSE "None"
        /\ rfm_filtered' = IF loaded THEN filtered ELSE NoneFrame
        /\ metrics' = IF loaded THEN Shown(KeyMetrics(filtered)) ELSE Hidden
        /\ segment_counts' =
              IF hasSeg THEN Shown(SegmentCounts(src)) ELSE Hidden
        /\ segment_rfm' =
              IF hasSeg /\ HasAll(t, RfmColumns)
              THEN Shown(SegmentRfm(src)) ELSE Hidden
        /\ segment_revenue' =
              IF hasSeg /\ HasCol(t, "Monetary")
              THEN Shown(SegmentRevenue(src)) ELSE Hidden
        /\ top_customers' =
              IF loaded /\ HasCol(t, "Monetary")
              THEN Shown(TopCustomers(src)) ELSE Hidden
        /\ segment_summary' =
              IF hasSeg /\ HasAll(t, RfmColumns)
              THEN Shown(SegmentSummary(src)) ELSE Hidden
        /\ raw_sample' = IF loaded THEN Head_(filtered, SampleRows) ELSE NoneFrame
        /\ UNCHANGED <<rfmFile, txFile, tieOrder>>

\* The first execution: the selectbox shows its first option, "All"
FirstRun ==
    /\ runs = 0
    /\ Execute("All")

\* A UI interaction re-executes the script; the selectbox holds one of the
\* options the previous execution offered
Rerun ==
    /\ runs >= 1
    /\ runs < MaxRuns
    /\ \E sel \in Options(rfm) : Execute(sel)

\* The input files change on disk: the RFM file is removed or put back
ModifyFiles ==
    /\ rfmFile' = [rfmFile EXCEPT !.exists = ~rfmFile.exists]
    /\ UNCHANGED <<txFile, tieOrder, cache, rfm, df, errors, selected_segment,
                   rfm_filtered, metrics, segment_counts, segment_rfm,
                   segment_revenue, top_customers, segment_summary, raw_sample,
                   runs, loaderRuns, aggRuns>>

Next == FirstRun \/ Rerun \/ ModifyFiles

----------------------------------------------------------------------------
(* Initial states *)

\* the orders in which a sort that is not stable may leave equal keys
TieOrders == {"first", "last"}

\* the state of the process before the first execution
Fresh ==
    /\ cache = EmptyCache
    /\ rfm = NoneFrame
    /\ df = NoneFrame
    /\ errors = <<>>
    /\ selected_segment = "None"
    /\ rfm_filtered = NoneFrame
    /\ metrics = Hidden
    /\ segment_counts = Hidden
    /\ segment_rfm = Hidden
    /\ segment_revenue = Hidden
    /\ top_customers = Hidden
    /\ segment_summary = Hidden
    /\ raw_sample = NoneFrame
    /\ runs = 0
    /\ loaderRuns = 0
    /\ aggRuns = 0

GoodTxFile ==
    [exists |-> TRUE, header |-> <<"InvoiceDate">>, rows |-> << <<"2010-12-01">> >>]

AnalyticColumns == <<"Recency", "Frequency", "Monetary", "Customer_Segment">>

\* the cells of the analytic columns named by the mask, for every row value
RowCells(mask) ==
    LET at == Where(mask, 1)
    IN  {[k \in 1..Len(at) |-> t[at[k]]] :
            t \in RecencyValues \X FrequencyValues \X MonetaryValues \X SegmentValues}

FullMask == [k \in 1..4 |-> TRUE]

\* RFM files with a CustomerID column and the analytic columns, of at most
\* MaxRows customers, or with some analytic columns only, of at most
\* MaxPartialRows customers
Init ==
    /\ \E mask \in [1..4 -> BOOLEAN], n \in 0..MaxRows :
         \E cells \in [1..n -> RowCells(mask)] :
            /\ mask # FullMask => n <= MaxPartialRows
            /\ rfmFile = [exists |-> TRUE,
                       header |-> <<"CustomerID">> \o
                           [k \in 1..Len(Where(mask, 1)) |->
                               AnalyticColumns[Where(mask, 1)[k]]],
                       rows |-> [i \in 1..n |-> <<100 + i>> \o cells[i]]]
    /\ txFile = GoodTxFile
    /\ tieOrder \in TieOrders
    /\ Fresh

Spec == Init /\ [][Next]_vars

HeaderCells == {"", "index", "CustomerID", "level_0", "Recency"}

\* header rows of at most MaxHeaderLen cells; pd.read_csv tells equal names
\* apart, so the names other than the empty one are distinct
Headers ==
    UNION {{h \in [1..n -> HeaderCells] :
              \A i, j \in 1..n : (i # j /\ h[i] = h[j]) => h[i] = ""} :
           n \in 0..MaxHeaderLen}

\* any header on the RFM file, and transaction files that are missing, lack
\* the InvoiceDate column or hold dates that do not parse
InitLoad ==
    /\ \E h \in Headers :
         rfmFile = [exists |-> TRUE, header |-> h,
                    rows |-> [i \in 1..LoadRows |->
                                [c \in 1..Len(h) |-> 100 + 10 * i + c]]]
    /\ \E e \in BOOLEAN, h \in {<<"InvoiceDate">>, <<"Description">>},
          n \in 0..MaxTxRows :
         \E cells \in [1..n -> DateTexts] :
            txFile = [exists |-> e, header |-> h,
                      rows |-> [i \in 1..n |-> <<cells[i]>>]]
    /\ tieOrder \in TieOrders
    /\ Fresh

SpecLoad == InitLoad /\ [][Next]_vars

\* RFM files of up to MaxTopRows customers, more than the chart of the top
\* customers holds; they have no segment column, so nothing is sorted with
\* the default kind and one tieOrder stands for both
InitTop ==
    /\ \E n \in 0..MaxTopRows :
         \E cells \in [1..n -> MonetaryValues] :
            rfmFile = [exists |-> TRUE,
                       header |-> <<"CustomerID", "Monetary">>,
                       rows |-> [i \in 1..n |-> <<100 + i, cells[i]>>]]
    /\ txFile = GoodTxFile
    /\ tieOrder = "first"
    /\ Fresh

SpecTop == InitTop /\ [][Next]_vars

----------------------------------------------------------------------------
(* Properties *)

Loaded == runs >= 1 /\ ~rfm.none /\ ~df.none

\* the transactions file is there, has its InvoiceDate column and holds
\* exactly one row whose date does not parse
OneBadDate ==
    /\ txFile.exists
    /\ txFile.header = <<"InvoiceDate">>
    /\ Cardinality({i \in 1..Len(txFile.rows) : txFile.rows[i][1] = "not a date"}) = 1

\* C1: load_data returns both tables or neither, and neither exactly when it
\* reports an error; a transactions file that is missing, lacks InvoiceDate
\* or holds one unparseable date makes the load return no table at all, the
\* RFM table included.
C1_AllOrNothing ==
    /\ LET r == load_data(rfmFile, txFile)
           txBad == \/ ~txFile.exists
                    \/ txFile.header # <<"InvoiceDate">>
                    \/ \E i \in 1..Len(txFile.rows) : txFile.rows[i][1] = "not a date"
       IN  /\ r.rfm.none <=> r.df.none
           /\ r.rfm.none <=> r.error
           /\ txBad => r.rfm.none /\ r.df.none
           /\ ~rfmFile.exists => r.rfm.none /\ r.df.none
    /\ runs >= 1 =>
         /\ rfm.none <=> df.none
         /\ rfm.none <=> "Error loading data" \in RangeOf(errors)
         /\ rfm.none <=> "Could not load data files" \in RangeOf(errors)

\* the RFM file was read and normalised, one of two transaction rows has an
\* unparseable date, and the execution got no table
C1_Witness ==
    /\ runs >= 1
    /\ rfmFile.exists
    /\ ~LoadRfm(rfmFile).raised
    /\ OneBadDate
    /\ Len(txFile.rows) = 2
    /\ rfm.none /\ df.none
    /\ errors # <<>>

\* C2: a loaded RFM table has a CustomerID column; a first column named
\* 'Unnamed: 0' or 'index' is renamed to CustomerID and no 'Unnamed: 0'
\* column remains; and when no CustomerID column exists after that step, the
\* CustomerID column is the materialized row index 0, 1, ..., n-1.
C2_CustomerIdColumn ==
    Loaded =>
        LET raw == ParseHeader(rfmFile.header)
        IN  /\ HasCol(rfm, "CustomerID")
            /\ raw[1] \in IndexSentinels =>
                 /\ rfm.columns[1] = "CustomerID"
                 /\ ~HasCol(rfm, "Unnamed: 0")
            /\ (raw[1] \notin IndexSentinels /\ "CustomerID" \notin RangeOf(raw)) =>
                 Column(rfm, "CustomerID") = RangeIndex(Len(rfmFile.rows))

\* the part of C2 that the code keeps: the row index is materialized unless
\* the file has a column named 'index' behind its first column
C2_ExceptIndexColumn ==
    Loaded =>
        LET raw == ParseHeader(rfmFile.header)
        IN  /\ HasCol(rfm, "CustomerID")
            /\ raw[1] \in IndexSentinels =>
                 /\ rfm.columns[1] = "CustomerID"
                 /\ ~HasCol(rfm, "Unnamed: 0")
            /\ (raw[1] \notin IndexSentinels /\ "CustomerID" \notin RangeOf(raw)
                /\ "index" \notin RangeOf(raw)) =>
                 Column(rfm, "CustomerID") = RangeIndex(Len(rfmFile.rows))

\* the positions of the rows that a selection keeps: those whose segment is
\* the selection; a missing value equals nothing, so selecting it keeps none
KeptBy(sel) ==
    IF sel = NaN THEN {}
    ELSE {i \in 1..Len(rfm.rows) : Column(rfm, SegCol)[i] = sel}

\* C3: under the selection "All" the filtered table is the loaded table;
\* under any other selection it holds exactly the rows whose
\* Customer_Segment equals the selection, in their original order.
C3_FilterBySegment ==
    Loaded =>
        IF selected_segment = "All" THEN rfm_filtered = rfm
        ELSE LET keep == KeptBy(selected_segment)
                 n == Len(rfm_filtered.rows)
             IN  /\ rfm_filtered.columns = rfm.columns
                 /\ Len(rfm_filtered.index) = n
                 /\ n = Cardinality(keep)
                 /\ \A k \in 1..n :
                      /\ rfm_filtered.index[k] + 1 \in keep
                      /\ rfm_filtered.rows[k] = rfm.rows[rfm_filtered.index[k] + 1]
                 /\ \A k \in 1..(n - 1) :
                      rfm_filtered.index[k] < rfm_filtered.index[k + 1]

\* a segment is selected that keeps some rows and drops others
C3_Witness ==
    /\ Loaded
    /\ selected_segment \notin {"All", "None", NaN}
    /\ Len(rfm_filtered.rows) >= 1
    /\ Len(rfm_filtered.rows) < Len(rfm.rows)

\* C4: the filter results of the distinct values the selector offers besides
\* "All" partition the loaded table: their row counts sum to the row count
\* of the table and every row is in exactly one of them.
C4_Partition ==
    (Loaded /\ HasCol(rfm, SegCol)) =>
        LET values == Unique(Column(rfm, SegCol))
            part(k) == FilterBySegment(rfm, values[k])
        IN  /\ SumSeq([k \in 1..Len(values) |-> Len(part(k).rows)]) = Len(rfm.rows)
            /\ \A i \in 1..Len(rfm.rows) :
                 Cardinality({k \in 1..Len(values) :
                                rfm.index[i] \in RangeOf(part(k).index)}) = 1

\* C5: segment_counts has one entry per distinct segment value, the missing
\* value among them, and its counts sum to the row count of the table; the
\* grouped aggregates have one row per distinct segment value as well.
C5_NoRowDropped ==
    LET distinct == Cardinality(RangeOf(Column(rfm, SegCol)))
    IN  /\ segment_counts.shown =>
             /\ Len(segment_counts.data) = distinct
             /\ SumSeq([k \in 1..Len(segment_counts.data) |->
                          segment_counts.data[k].Count]) = Len(rfm.rows)
        /\ segment_rfm.shown => Len(segment_rfm.data) = distinct
        /\ segment_revenue.shown => Len(segment_revenue.data) = distinct
        /\ segment_summary.shown =>
             /\ Len(segment_summary.data) = distinct
             /\ SumSeq([k \in 1..Len(segment_summary.data) |->
                          segment_summary.data[k].CustomerCount]) = Len(rfm.rows)

\* C6: the top-N rows by Monetary number min(N, rows of the table), are in
\* non-increasing Monetary order, hold the N largest values, and rows of
\* equal Monetary come in original row order, those left out after those
\* kept; the chart holds their Monetary values in that order.
C6_TopCustomers ==
    top_customers.shown =>
        LET m == Column(rfm, "Monetary")
            top == NLargest(rfm, TopN, "Monetary")
            tm == Column(top, "Monetary")
            n == Len(top.rows)
            chosen == RangeOf(top.index)
        IN  /\ n = Min(TopN, Len(rfm.rows))
            /\ Len(top.index) = n
            /\ Cardinality(chosen) = n
            /\ \A k \in 1..n : top.rows[k] = rfm.rows[top.index[k] + 1]
            /\ \A k \in 1..(n - 1) : tm[k] >= tm[k + 1]
            /\ \A i \in 1..Len(rfm.rows), k \in 1..n :
                 rfm.index[i] \notin chosen =>
                    /\ m[i] <= tm[k]
                    /\ m[i] = tm[k] => rfm.index[i] > top.index[k]
            /\ \A j, k \in 1..n :
                 (j < k /\ tm[j] = tm[k]) => top.index[j] < top.index[k]
            /\ Len(top_customers.data) = n
            /\ \A k \in 1..n :
                 /\ top_customers.data[k].Monetary = tm[k]
                 /\ top_customers.data[k].Customer = k

\* more customers than the chart holds, and a customer left out whose
\* Monetary equals that of a customer kept
C6_Witness ==
    /\ top_customers.shown
    /\ Len(rfm.rows) > TopN
    /\ Len(top_customers.data) = TopN
    /\ \E i \in 1..Len(rfm.rows) :
         /\ rfm.index[i] \notin RangeOf(NLargest(rfm, TopN, "Monetary").index)
         /\ Column(rfm, "Monetary")[i] = top_customers.data[TopN].Monetary
    /\ top_customers.data[1].Monetary > top_customers.data[TopN].Monetary

MetricKind(name) ==
    IF ~HasCol(rfm, name) THEN "N/A"
    ELSE IF Len(rfm_filtered.rows) = 0 THEN "nan" ELSE "value"

\* C8: whenever the tables are loaded, the render completes: the customer
\* count is reported, each of mean Recency, mean Frequency and total
\* Monetary is a computed value exactly when its column exists and "N/A"
\* otherwise, and the mean of zero rows is reported as nan.
C8_MetricsDegrade ==
    Loaded =>
        /\ metrics.shown
        /\ metrics.data.total_customers = Len(rfm_filtered.rows)
        /\ metrics.data.avg_recency.kind = MetricKind("Recency")
        /\ metrics.data.avg_frequency.kind = MetricKind("Frequency")
        /\ metrics.data.total_revenue.kind =
              (IF HasCol(rfm, "Monetary") THEN "value" ELSE "N/A")
        /\ ~raw_sample.none
        /\ errors = <<>>

\* a selection that keeps no row of a table without a Frequency column
C8_Witness ==
    /\ Loaded
    /\ selected_segment # "All"
    /\ Len(rfm.rows) >= 1
    /\ Len(rfm_filtered.rows) = 0
    /\ metrics.data.avg_recency.kind = "nan"
    /\ metrics.data.avg_frequency.kind = "N/A"

\* C9: the body of load_data runs in the first execution and never again,
\* whatever happens to the files; every execution gets the memoized tables,
\* and the aggregation runs in every execution that has tables.
C9_LoaderRunsOnce ==
    /\ loaderRuns <= 1
    /\ runs >= 1 =>
         /\ loaderRuns = 1
         /\ cache.stored
         /\ rfm = cache.value.rfm
         /\ df = cache.value.df
    /\ aggRuns = (IF Loaded THEN runs ELSE 0)

\* a later execution serves the tables although the RFM file is gone
C9_Witness ==
    /\ runs >= 2
    /\ loaderRuns = 1
    /\ ~rfmFile.exists
    /\ Loaded
    /\ aggRuns = runs

\* C10: a re-execution, whatever it selects, leaves the segment counts, the
\* per-segment means, the per-segment revenue, the top customers and the
\* segment summary as the execution before it computed them, and leaves the
\* loaded tables unchanged.
C10_SelectionFrame ==
    [][(runs >= 1 /\ runs' = runs + 1) =>
          /\ segment_counts' = segment_counts
          /\ segment_rfm' = segment_rfm
          /\ segment_revenue' = segment_revenue
          /\ top_customers' = top_customers
          /\ segment_summary' = segment_summary
          /\ rfm' = rfm
          /\ df' = df]_vars

\* a later execution selects one of two segments: the filtered views shrink
\* while the segment views still cover both
C10_Witness ==
    /\ runs >= 2
    /\ Loaded
    /\ selected_segment \in {"A", "B"}
    /\ Len(rfm_filtered.rows) < Len(rfm.rows)
    /\ metrics.data.total_customers < Len(rfm.rows)
    /\ segment_counts.shown /\ Len(segment_counts.data) = 2
    /\ segment_summary.shown /\ Len(segment_summary.data) = 2

====
